---- MODULE Spec2Model ----
(***************************************************************************)
(* Model of ai-gateway/src/config/providers.rs: the custom serde codec of  *)
(* ProvidersConfig (an IndexMap from InferenceProvider to                  *)
(* GlobalProviderConfig), and ProvidersConfig::default().                  *)
(*                                                                         *)
(* A document is what the generic decoding layer (serde MapAccess) hands   *)
(* to visit_map: a sequence of (key, raw record) pairs.  Model strings are *)
(* sequences of tokens so that the provider-aware parse and the formatting *)
(* of a ModelId are computed, not assumed.                                 *)
(***************************************************************************)
EXTENDS Integers, Sequences, FiniteSets, TLC

VARIABLES mode, doc, pos, pc, provider, raw_config, models, mi, providers,
          result, parsed, first, ret

vars == <<mode, doc, pos, pc, provider, raw_config, models, mi, providers,
          result, parsed, first, ret>>

\* ------------------------------------------------------------------ bounds
\* Largest number of (key, record) pairs of a document.
MaxEntries == 2
\* Largest number of model strings listed in a document, all records together.
MaxStrings == 3

\* ------------------------------------------------------ generic sequences
Range(s) == {s[i] : i \in 1..Len(s)}

RECURSIVE SumLen(_)
SumLen(d) ==
    IF d = <<>> THEN 0 ELSE Len(Head(d).value.models) + SumLen(Tail(d))

\* ------------------------------------------------- InferenceProvider (4.1)
\* A key of the document is a string token or a key of another shape.
StrKey(t) == [shape |-> "str", text |-> t]
BadKey == [shape |-> "seq", text |-> ""]

\* InferenceProvider's Deserialize: a known token gives its variant, an
\* unknown token the open Named variant, a key that is no string an error.
DecodeProvider(k) ==
    IF k.shape # "str" THEN [ok |-> FALSE, value |-> [variant |-> "", name |-> ""]]
    ELSE IF k.text = "openai"
         THEN [ok |-> TRUE, value |-> [variant |-> "OpenAI", name |-> ""]]
    ELSE IF k.text = "anthropic"
         THEN [ok |-> TRUE, value |-> [variant |-> "Anthropic", name |-> ""]]
    ELSE [ok |-> TRUE, value |-> [variant |-> "Named", name |-> k.text]]

\* InferenceProvider's Display / Serialize: the lowercase token.
ProviderToString(p) ==
    IF p.variant = "OpenAI" THEN "openai"
    ELSE IF p.variant = "Anthropic" THEN "anthropic"
    ELSE p.name

\* ------------------------------------------------------ ModelId (4.2)
\* Calendar date of an 8-digit YYYYMMDD token.
DateDigits(t) ==
    IF t = "20240229" THEN <<2024, 2, 29>>
    ELSE IF t = "20241399" THEN <<2024, 13, 99>>
    ELSE <<>>

IsLeap(y) == (y % 4 = 0 /\ y % 100 # 0) \/ y % 400 = 0

DaysIn(y, m) ==
    IF m = 2 THEN (IF IsLeap(y) THEN 29 ELSE 28)
    ELSE IF m \in {4, 6, 9, 11} THEN 30 ELSE 31

ValidDate(d) ==
    /\ d[2] \in 1..12
    /\ d[3] \in 1..DaysIn(d[1], d[2])

\* The stored date formatted back with its stored format ("%Y%m%d").
FormatDate(d) ==
    IF d = <<2024, 2, 29>> THEN "20240229" ELSE "00000000"

\* Providers whose model names carry a trailing -YYYYMMDD release date; the
\* open Named variant has no recognised suffix.
HasDateSuffixRule(p) == p.variant \in {"OpenAI", "Anthropic"}

ImplicitLatest == [kind |-> "ImplicitLatest", date |-> <<>>, format |-> ""]
Dated(d) == [kind |-> "Date", date |-> d, format |-> "%Y%m%d"]

NoModelId == [provider |-> [variant |-> "", name |-> ""], model |-> <<>>,
              version |-> ImplicitLatest]

\* ModelId::from_str_and_provider(provider, s).
FromStrAndProvider(p, s) ==
    LET n == Len(s)
        dateShaped == /\ HasDateSuffixRule(p)
                      /\ n >= 2
                      /\ s[n - 1] = "-"
                      /\ DateDigits(s[n]) # <<>>
        base == IF dateShaped THEN SubSeq(s, 1, n - 2) ELSE s
    IN  IF dateShaped /\ ~ValidDate(DateDigits(s[n]))
        THEN [ok |-> FALSE, err |-> "InvalidVersionDate", id |-> NoModelId]
        ELSE IF base = <<>>
        THEN [ok |-> FALSE, err |-> "EmptyModelName", id |-> NoModelId]
        ELSE [ok |-> TRUE, err |-> "",
              id |-> [provider |-> p, model |-> base,
                      version |-> IF dateShaped THEN Dated(DateDigits(s[n]))
                                  ELSE ImplicitLatest]]

\* ModelId's Display (ToString::to_string).
ModelIdToString(m) ==
    IF m.version.kind = "Date"
    THEN m.model \o <<"-", FormatDate(m.version.date)>>
    ELSE m.model

\* ------------------------------------------------------------------ Url
NoUrl == [scheme |-> "", host |-> "", path |-> ""]

\* Url's Deserialize (Url::parse): an absolute URL, with the path normalised.
UrlParse(s) ==
    IF s \in {"https://api.example.com", "https://api.example.com/"}
    THEN [ok |-> TRUE,
          value |-> [scheme |-> "https", host |-> "api.example.com", path |-> "/"]]
    ELSE [ok |-> FALSE, value |-> NoUrl]

\* Url's Serialize (Url::as_str).
UrlAsStr(u) == u.scheme \o "://" \o u.host \o u.path

\* ------------------------------------------------- IndexSet and IndexMap
\* A Vec in place of the IndexSet: every value is pushed.
VecPush(s, x) == Append(s, x)

\* IndexSet::insert: a value already in the set keeps its place.
IndexSetInsert(s, x) == IF x \in Range(s) THEN s ELSE Append(s, x)

\* Collecting an iterator into an IndexSet (FromIterator / Deserialize).
RECURSIVE IndexSetFrom(_)
IndexSetFrom(xs) ==
    IF xs = <<>> THEN <<>>
    ELSE IndexSetInsert(IndexSetFrom(SubSeq(xs, 1, Len(xs) - 1)), xs[Len(xs)])

\* shift_insert(0, ..) in place of insert: the newest provider comes first.
IndexMapInsertFront(m, k, v) ==
    <<[key |-> k, value |-> v]>> \o SelectSeq(m, LAMBDA e : e.key # k)

\* IndexMap::insert: a key already in the map keeps its place and gets the
\* new value; a new key goes to the end.
IndexMapInsert(m, k, v) ==
    IF \E i \in 1..Len(m) : m[i].key = k
    THEN [i \in 1..Len(m) |-> IF m[i].key = k THEN [key |-> k, value |-> v] ELSE m[i]]
    ELSE Append(m, [key |-> k, value |-> v])

\* ------------------------------------------------ records and their text
\* Option<String>.
None == [some |-> FALSE, val |-> ""]
Some(v) == [some |-> TRUE, val |-> v]

\* The version field of a record of the document.
Absent == [tag |-> "absent", str |-> ""]
Null == [tag |-> "null", str |-> ""]
Str(v) == [tag |-> "str", str |-> v]

NoRawConfig == [models |-> <<>>, base_url |-> NoUrl, version |-> None]

\* #[serde(default)] version: Option<String>.
DecodeVersion(f) == IF f.tag = "str" THEN Some(f.str) ELSE None

\* Deserialize of RawGlobalProviderConfig, derived.
DecodeRawConfig(rec) ==
    LET u == UrlParse(rec.base_url)
    IN  IF ~u.ok THEN [ok |-> FALSE, value |-> NoRawConfig]
        ELSE [ok |-> TRUE,
              value |-> [models |-> IndexSetFrom(rec.models),
                         base_url |-> u.value,
                         version |-> DecodeVersion(rec.version)]]

\* The version field without skip_serializing_if: None is written as null.
EncodeVersionAsNull(v) == IF v.some THEN Str(v.val) ELSE Null

\* #[serde(skip_serializing_if = "Option::is_none")] version.
EncodeVersion(v) == IF v.some THEN Str(v.val) ELSE Absent

\* SerializedGlobalProviderConfig with the version field forgotten.
SerializedConfigNoVersion(config) ==
    [models |-> [i \in 1..Len(config.models) |-> ModelIdToString(config.models[i])],
     base_url |-> UrlAsStr(config.base_url),
     version |-> Absent]

\* SerializedGlobalProviderConfig built from one GlobalProviderConfig.
SerializedConfig(config) ==
    [models |-> IndexSetFrom([i \in 1..Len(config.models) |->
                                  ModelIdToString(config.models[i])]),
     base_url |-> UrlAsStr(config.base_url),
     version |-> EncodeVersion(config.version)]

\* impl Serialize for ProvidersConfig: one entry per provider, in map order.
Serialize(c) ==
    [i \in 1..Len(c) |->
        [key |-> StrKey(ProviderToString(c[i].key)),
         value |-> SerializedConfig(c[i].value)]]

\* ---------------------------------------------------------------- errors
NoError == [kind |-> "", provider |-> "", text |-> <<>>, cause |-> ""]

\* An error raised by the decoding layer itself (next_key / next_value); ctx
\* is the location the layer attaches to it, if it attaches one.
DeserializerError(ctx, text, cause) ==
    [kind |-> "Deserializer", provider |-> ctx, text |-> text, cause |-> cause]

\* The message without the provider: "Invalid model '{model_str}': {e}".
InvalidModelErrorNoProvider(p, model_str, e) ==
    [kind |-> "Custom", provider |-> "", text |-> model_str, cause |-> e]

\* de::Error::custom("Invalid model '{model_str}' for provider {provider}: {e}").
InvalidModelError(p, model_str, e) ==
    [kind |-> "Custom", provider |-> ProviderToString(p), text |-> model_str,
     cause |-> e]

NoResult == [kind |-> "none", value |-> <<>>, error |-> NoError]
Ok(v) == [kind |-> "ok", value |-> v, error |-> NoError]
Err(e) == [kind |-> "err", value |-> <<>>, error |-> e]

\* ------------------------------------------------------------- documents
InputKeys == {StrKey("openai"), StrKey("acme"), BadKey}

InputModelStrings ==
    {<<>>, <<"m">>, <<"m", "-", "20240229">>, <<"m", "-", "20241399">>}

InputUrls == {"https://api.example.com", "api.example.com"}

InputVersions == {Absent, Str("2023-06-01")}

SeqsUpTo(S, n) == UNION {[1..k -> S] : k \in 0..n}

EmptyRecord == [models |-> <<>>, base_url |-> "", version |-> Absent]

\* The pairs the decoding layer can yield next when budget more model strings
\* fit the document.  The record behind a key that does not decode is never
\* requested, so one stands for all of them.
InputEntries(budget) ==
    {[key |-> k, value |-> [models |-> ms, base_url |-> u, version |-> v]] :
        k \in InputKeys \ {BadKey}, ms \in SeqsUpTo(InputModelStrings, budget),
        u \in InputUrls, v \in InputVersions}
    \cup {[key |-> BadKey, value |-> EmptyRecord]}

\* ------------------------------------------------------------------ Init
NoProvider == [variant |-> "", name |-> ""]
NoRet == [kind |-> "none", value |-> <<>>]

Init ==
    /\ mode = "fresh"
    /\ doc = <<>>
    /\ pos = 0
    /\ pc = "next_key"
    /\ provider = NoProvider
    /\ raw_config = NoRawConfig
    /\ models = <<>>
    /\ mi = 0
    /\ providers = <<>>
    /\ result = NoResult
    /\ parsed = <<>>
    /\ first = <<>>
    /\ ret = NoRet

\* --------------------------------------------------------------- visit_map
\* map.next_key::<InferenceProvider>()? on the key k.
ReadKey(k) ==
    LET d == DecodeProvider(k)
    IN  /\ pos' = pos + 1
        /\ IF d.ok
           THEN /\ provider' = d.value
                /\ pc' = "next_value"
                /\ result' = result
           ELSE /\ provider' = provider
                /\ pc' = "done"
                /\ result' = Err(DeserializerError("", <<>>, "InvalidProviderToken"))
        /\ UNCHANGED <<mode, raw_config, models, mi, providers, parsed, first, ret>>

\* The decoding layer yields one more pair of a document read for the first time.
FreshNextKey ==
    /\ mode = "fresh"
    /\ pc = "next_key"
    /\ Len(doc) < MaxEntries
    /\ \E e \in InputEntries(MaxStrings - SumLen(doc)) :
          /\ doc' = Append(doc, e)
          /\ ReadKey(e.key)

\* The decoding layer yields the next pair of the serialized document.
ReplayNextKey ==
    /\ mode = "replay"
    /\ pc = "next_key"
    /\ pos < Len(doc)
    /\ doc' = doc
    /\ ReadKey(doc[pos + 1].key)

\* next_key returns None: the loop ends and visit_map returns Ok.
EndOfMap ==
    /\ pc = "next_key"
    /\ mode = "replay" => pos = Len(doc)
    /\ result' = Ok(providers)
    /\ pc' = "done"
    /\ UNCHANGED <<mode, doc, pos, provider, raw_config, models, mi, providers,
                   parsed, first, ret>>

\* map.next_value()? succeeds.
NextValueOk ==
    /\ pc = "next_value"
    /\ DecodeRawConfig(doc[pos].value).ok
    /\ raw_config' = DecodeRawConfig(doc[pos].value).value
    /\ models' = <<>>
    /\ mi' = 1
    /\ pc' = "models"
    /\ UNCHANGED <<mode, doc, pos, provider, providers, result, parsed, first, ret>>

\* map.next_value()? fails: the layer's error is returned as it is.  Whether
\* the layer names the key in it is the layer's choice.
NextValueErr ==
    /\ pc = "next_value"
    /\ ~DecodeRawConfig(doc[pos].value).ok
    /\ \E ctx \in {"", doc[pos].key.text} :
          result' = Err(DeserializerError(ctx, <<doc[pos].value.base_url>>,
                                          "relative URL without a base"))
    /\ pc' = "done"
    /\ UNCHANGED <<mode, doc, pos, provider, raw_config, models, mi, providers,
                   parsed, first, ret>>

\* The provider of the first entry, captured once before the loop.
ModelContextFirstKey ==
    IF providers = <<>> THEN provider ELSE providers[1].key

\* The provider handed to ModelId::from_str_and_provider.
ModelContext == provider

\* filter_map(.. .ok()) in place of map(..).collect::<Result<..>>(): a model
\* string that does not parse is skipped.
ParseModelLenient ==
    /\ pc = "models"
    /\ mi <= Len(raw_config.models)
    /\ LET model_str == raw_config.models[mi]
           r == FromStrAndProvider(provider, model_str)
       IN  /\ parsed' = Append(parsed, [provider |-> ProviderToString(provider),
                                        text |-> model_str, ok |-> r.ok])
           /\ models' = IF r.ok THEN IndexSetInsert(models, r.id) ELSE models
           /\ mi' = mi + 1
    /\ UNCHANGED <<mode, doc, pos, pc, provider, raw_config, providers, result,
                   first, ret>>

\* One step of the map(..).collect::<Result<IndexSet<_>, _>>() iterator.
ParseModel ==
    /\ pc = "models"
    /\ mi <= Len(raw_config.models)
    /\ LET model_str == raw_config.models[mi]
           r == FromStrAndProvider(ModelContext, model_str)
       IN  /\ parsed' = Append(parsed, [provider |-> ProviderToString(provider),
                                        text |-> model_str, ok |-> r.ok])
           /\ IF r.ok
              THEN /\ models' = IndexSetInsert(models, r.id)
                   /\ mi' = mi + 1
                   /\ UNCHANGED <<pc, result>>
              ELSE /\ result' = Err(InvalidModelError(provider, model_str, r.err))
                   /\ pc' = "done"
                   /\ UNCHANGED <<models, mi>>
    /\ UNCHANGED <<mode, doc, pos, provider, raw_config, providers, first, ret>>

\* The iterator is exhausted: the collected set is moved into the config and
\* providers.insert(provider, config).
Insert ==
    /\ pc = "models"
    /\ mi > Len(raw_config.models)
    /\ providers' = IndexMapInsert(providers, provider,
                                   [models |-> models,
                                    base_url |-> raw_config.base_url,
                                    version |-> raw_config.version])
    /\ models' = <<>>
    /\ pc' = "next_key"
    /\ UNCHANGED <<mode, doc, pos, provider, raw_config, mi, result, parsed,
                   first, ret>>

\* ---------------------------------------------------- callers of the decode
\* unwrap_or_default() in place of expect(): a failed decode gives an empty map.
UnwrapOrEmpty(res) ==
    [kind |-> "returned", value |-> IF res.kind = "ok" THEN res.value ELSE <<>>]

\* Result::expect("Always valid if tests pass").
Expect(res) ==
    IF res.kind = "ok" THEN [kind |-> "returned", value |-> res.value]
    ELSE [kind |-> "panicked", value |-> <<>>]

\* ProvidersConfig::default(): the document read was the embedded dataset.
Default ==
    /\ mode = "fresh"
    /\ pc = "done"
    /\ ret' = Expect(result)
    /\ pc' = "default_done"
    /\ UNCHANGED <<mode, doc, pos, provider, raw_config, models, mi, providers,
                   result, parsed, first>>

\* The decoded map is serialized, and the text is handed to a second decode.
SerializeAndDecode ==
    /\ mode = "fresh"
    /\ pc = "done"
    /\ result.kind = "ok"
    /\ first' = result.value
    /\ doc' = Serialize(result.value)
    /\ mode' = "replay"
    /\ pos' = 0
    /\ pc' = "next_key"
    /\ provider' = NoProvider
    /\ raw_config' = NoRawConfig
    /\ models' = <<>>
    /\ mi' = 0
    /\ providers' = <<>>
    /\ result' = NoResult
    /\ parsed' = <<>>
    /\ UNCHANGED ret

Next ==
    \/ FreshNextKey
    \/ ReplayNextKey
    \/ EndOfMap
    \/ NextValueOk
    \/ NextValueErr
    \/ ParseModel
    \/ Insert
    \/ Default
    \/ SerializeAndDecode

Spec == Init /\ [][Next]_vars

\* ================================================================ claims
Done == pc \in {"done", "default_done"}

\* The decoded key of the i-th pair read.
KeyAt(i) == DecodeProvider(doc[i].key).value

\* The identifiers the model strings of the i-th pair parse to, as listed.
ParsedListAt(i) ==
    [j \in 1..Len(doc[i].value.models) |->
        FromStrAndProvider(KeyAt(i), doc[i].value.models[j]).id]

PairDecodes(i) ==
    /\ DecodeProvider(doc[i].key).ok
    /\ UrlParse(doc[i].value.base_url).ok
    /\ \A j \in 1..Len(doc[i].value.models) :
          FromStrAndProvider(KeyAt(i), doc[i].value.models[j]).ok

\* Every pair read so far decodes: key, record and every model string.
ReadPairsDecode == \A i \in 1..pos : PairDecodes(i)

\* The elements of xs, each at the place of its first occurrence.
RECURSIVE KeepFirst(_)
KeepFirst(xs) ==
    IF xs = <<>> THEN <<>>
    ELSE <<Head(xs)>> \o SelectSeq(KeepFirst(Tail(xs)), LAMBDA y : y # Head(xs))

NoRepeat(xs) == \A i, j \in 1..Len(xs) : xs[i] = xs[j] => i = j

\* The last pair read whose key is the provider k.
LastPairOf(k) ==
    CHOOSE i \in 1..pos : KeyAt(i) = k /\ \A j \in (i + 1)..pos : KeyAt(j) # k

\* C1: a document in which a provider key appears more than once is never
\* decoded to a map: the decode ends with an error.
C1_DuplicateKeyRejected ==
    (Done /\ \E i, j \in 1..pos : i < j /\ doc[i].key = doc[j].key)
        => result.kind = "err"

\* C2: decode is all-or-nothing.  No ProvidersConfig is observable before the
\* decode has ended; an Ok result is returned only when every pair of the
\* document was read and each decodes; when a key, a record or a model string
\* does not decode the result is an error that carries no map.
C2_AllOrNothing ==
    /\ ~Done => result = NoResult
    /\ result.kind = "ok" => pos = Len(doc) /\ ReadPairsDecode
    /\ (Done /\ ~ReadPairsDecode) => result.kind = "err" /\ result.value = <<>>

\* C2 witness: a decode that failed after a provider had already been inserted
\* into the local map.
C2_Witness ==
    /\ mode = "fresh"
    /\ pc = "done"
    /\ result.kind = "err"
    /\ providers # <<>>

\* C3: after a successful decode the map iterates the providers in the order
\* their keys (first) appeared in the document, and each provider's model set
\* iterates the identifiers in the order their strings are listed in a record
\* of that provider.
C3_OrderPreserved ==
    result.kind = "ok" =>
        /\ [i \in 1..Len(result.value) |-> result.value[i].key]
              = KeepFirst([i \in 1..pos |-> KeyAt(i)])
        /\ \A i \in 1..Len(result.value) :
              \E e \in 1..pos :
                 /\ KeyAt(e) = result.value[i].key
                 /\ result.value[i].value.models = KeepFirst(ParsedListAt(e))

\* C3 witness: a first decode that returned two providers, the named one read
\* first, one of them with two models.
C3_Witness ==
    /\ mode = "fresh"
    /\ result.kind = "ok"
    /\ Len(result.value) = 2
    /\ result.value[1].key.variant = "Named"
    /\ \E i \in 1..2 : Len(result.value[i].value.models) = 2

\* C4: decoding the serialized form of a decoded map succeeds and gives a map
\* equal to it: same providers in the same order, same model identifiers in
\* the same order, same base URL, same optional version.
C4_RoundTrip ==
    (mode = "replay" /\ pc = "done") => result = Ok(first)

\* C4 witness: the second decode has ended on a map of two providers that has
\* a dated model and a version string.
C4_Witness ==
    /\ mode = "replay"
    /\ pc = "done"
    /\ Len(first) = 2
    /\ \E i \in 1..2 : first[i].value.version.some
    /\ \E i \in 1..2 : \E j \in 1..Len(first[i].value.models) :
          first[i].value.models[j].version.kind = "Date"

\* C5: an encoded record has a version field exactly when the provider's
\* config has a version string, and then that string; nothing (no null, no
\* empty string) is written for an absent version.  A record read without a
\* version field decodes to an absent version.
C5_VersionField ==
    /\ mode = "replay" =>
          /\ Len(doc) = Len(first)
          /\ \A i \in 1..Len(doc) :
                doc[i].value.version =
                    IF first[i].value.version.some
                    THEN Str(first[i].value.version.val) ELSE Absent
    /\ (pc = "models" /\ doc[pos].value.version = Absent)
          => raw_config.version = None
    /\ (pc = "next_key" /\ pos > 0 /\ doc[pos].value.version = Absent)
          => \E i \in 1..Len(providers) :
                /\ providers[i].key = KeyAt(pos)
                /\ providers[i].value.version = None

\* C5 witness: a map with one provider that has a version string and one that
\* has none was serialized.
C5_Witness ==
    /\ mode = "replay"
    /\ \E i, j \in 1..Len(first) :
          first[i].value.version.some /\ ~first[j].value.version.some

\* C6: default() returns the map of a fully successful decode of the dataset,
\* or panics; when the decode fails it does not return.
C6_DefaultReturnsOrPanics ==
    pc = "default_done" =>
        /\ ret.kind \in {"returned", "panicked"}
        /\ ret.kind = "returned" =>
              result.kind = "ok" /\ ret.value = result.value /\ ReadPairsDecode
        /\ ~ReadPairsDecode => ret.kind = "panicked"

\* C6 witness: default() panicked on a dataset whose first provider decoded.
C6_Witness ==
    /\ pc = "default_done"
    /\ ret.kind = "panicked"
    /\ providers # <<>>

\* C7: when the base-url of a record is no absolute URL, the decode error
\* names the provider of that record.
C7_UrlErrorNamesProvider ==
    (Done /\ pos > 0 /\ DecodeProvider(doc[pos].key).ok
          /\ ~UrlParse(doc[pos].value.base_url).ok)
        => result.kind = "err" /\ result.error.provider = doc[pos].key.text

\* C8: every model identifier stored under a provider, in the map being built
\* and in the map returned, was parsed with that provider as its context.
C8_ProviderContext ==
    /\ \A j \in 1..Len(models) : models[j].provider = provider
    /\ \A i \in 1..Len(providers) :
          \A j \in 1..Len(providers[i].value.models) :
             providers[i].value.models[j].provider = providers[i].key
    /\ \A i \in 1..Len(result.value) :
          \A j \in 1..Len(result.value[i].value.models) :
             result.value[i].value.models[j].provider = result.value[i].key

\* C8 witness: a returned map of two providers, each with a model.
C8_Witness ==
    /\ result.kind = "ok"
    /\ Len(result.value) = 2
    /\ \A i \in 1..2 : result.value[i].value.models # <<>>

\* The (pair, position) of the model strings read that do not parse.
FailingModels ==
    {p \in (1..pos) \X (1..MaxStrings + 1) :
        /\ p[2] <= Len(doc[p[1]].value.models)
        /\ ~FromStrAndProvider(KeyAt(p[1]), doc[p[1]].value.models[p[2]]).ok}

FirstFailingModel ==
    CHOOSE p \in FailingModels :
        \A q \in FailingModels :
            p[1] < q[1] \/ (p[1] = q[1] /\ p[2] <= q[2])

\* C9: when every key and base URL decodes and a model string does not parse,
\* the error names the provider and the string of the first such string in
\* document order; it is the last string parsed, everything parsed before it
\* parsed, and no later pair was read.
C9_FirstFailingModelNamed ==
    (/\ Done
     /\ \A i \in 1..pos : DecodeProvider(doc[i].key).ok
                          /\ UrlParse(doc[i].value.base_url).ok
     /\ FailingModels # {})
        => LET p == FirstFailingModel
               s == doc[p[1]].value.models[p[2]]
           IN  /\ result.kind = "err"
               /\ result.error.kind = "Custom"
               /\ result.error.provider = doc[p[1]].key.text
               /\ result.error.text = s
               /\ p[1] = pos
               /\ parsed # <<>>
               /\ parsed[Len(parsed)] =
                     [provider |-> doc[p[1]].key.text, text |-> s, ok |-> FALSE]
               /\ \A k \in 1..(Len(parsed) - 1) : parsed[k].ok

\* C9 witness: the decode failed on the second model string of a record that
\* lists a third one.
C9_Witness ==
    /\ pc = "done"
    /\ result.error.kind = "Custom"
    /\ mi = 2
    /\ Len(raw_config.models) = 3

\* C10: no model set holds an identifier twice; a document that decodes pair
\* by pair is decoded even when strings of a record parse to equal
\* identifiers, and each provider's set is then the distinct identifiers of
\* its record, each at the place of its first occurrence.
C10_ModelSetUnique ==
    /\ NoRepeat(models)
    /\ \A i \in 1..Len(providers) : NoRepeat(providers[i].value.models)
    /\ \A i \in 1..Len(result.value) : NoRepeat(result.value[i].value.models)
    /\ (Done /\ ReadPairsDecode) =>
          /\ result.kind = "ok"
          /\ \A i \in 1..Len(result.value) :
                LET l == ParsedListAt(LastPairOf(result.value[i].key))
                IN  /\ Len(result.value[i].value.models) = Cardinality(Range(l))
                    /\ result.value[i].value.models = KeepFirst(l)

\* C10 witness: a returned map one of whose records listed a model twice.
C10_Witness ==
    /\ result.kind = "ok"
    /\ \E i \in 1..Len(result.value) :
          LET l == ParsedListAt(LastPairOf(result.value[i].key))
          IN  /\ Len(l) = 3
              /\ Len(result.value[i].value.models) = 2
              /\ l[1] = l[3]

====
